---- MODULE Spec2Model ----
(***************************************************************************)
(* Model of msgraph.py: the ExcelClient request-descriptor builders, the   *)
(* range-address routine get_range_of_data, and the four Flask routes of   *)
(* the OAuth2 authorization-code flow.                                     *)
(*                                                                         *)
(* Interpreter: the source is Python 2 code (csv.reader over a file opened *)
(* 'rb', deleting from a dict while looping over .items()), so             *)
(* dict.items() is a list copy, dict iteration order is arbitrary, and     *)
(* numpy is a Python-2 era release in which np.shape of a ragged list is   *)
(* (rows,).                                                                *)
(***************************************************************************)
EXTENDS Integers, Sequences, FiniteSets, TLC

VARIABLES
  call,        \* the builder call under way: the operation and its arguments
  result,      \* what that call produced: pending, a return value or an error
  configs,     \* module level: [ENDPOINT, TYPE_OF_REQUEST, REQUEST_BODY]
  session,     \* flask.session: the keys 'state' and 'access_token'
  issued,      \* how many anti-forgery states uuid4 has produced so far
  request,     \* the request handled last: route and query arguments
  response,    \* the response to it
  outbound,    \* the outbound calls that request made (token endpoint, API)
  exchanges,   \* history: successful token exchanges so far
  apiCalls,    \* history: outbound API calls so far
  matched      \* history: a callback whose state equalled the stored one came

vars == <<call, result, configs, session, issued, request, response,
          outbound, exchanges, apiCalls, matched>>

flowVars == <<configs, session, issued, request, response, outbound,
              exchanges, apiCalls, matched>>

----------------------------------------------------------------------------
(* Bounds *)

MaxRows == 2
MaxCols == 703
MaxRaggedCols == 2
MaxLogins == 3
MaxTokens == 2
MaxExchanges == 2
MaxApiCalls == 3
MaxFlowDim == 2
MaxOptional == 4

----------------------------------------------------------------------------
(* Python values.  A list is kept as the sequence of its rows' lengths:   *)
(* the code reads a table only through type() and np.shape().             *)

PyNone == [type |-> "NoneType", str |-> "", rows |-> << >>]
PyStr(s) == [type |-> "str", str |-> s, rows |-> << >>]
PyInt == [type |-> "int", str |-> "7", rows |-> << >>]
PyTrue == [type |-> "bool", str |-> "True", rows |-> << >>]
PyList(rows) == [type |-> "list", str |-> "", rows |-> rows]
\* an argument the caller left out, so that the default applies
Absent == [type |-> "absent", str |-> "", rows |-> << >>]

\* mutant: the column count is read off the first row, ragged or not
NpShapeFirstRow(v) ==
  IF v.type # "list" THEN << >>
  ELSE IF Len(v.rows) = 0 THEN <<0>>
  ELSE <<Len(v.rows), v.rows[1]>>

\* np.shape: () for a scalar, (n,) for an empty or ragged list, (n, c) for a
\* list of n rows of c cells each.
NpShape(v) ==
  IF v.type # "list" THEN << >>
  ELSE IF Len(v.rows) = 0 THEN <<0>>
  ELSE IF \A i \in 1..Len(v.rows) : v.rows[i] = v.rows[1]
       THEN <<Len(v.rows), v.rows[1]>>
       ELSE <<Len(v.rows)>>

----------------------------------------------------------------------------
(* Results of a call *)

NoBody == {}
Pending == [kind |-> "pending", value |-> "", path |-> "", verb |-> "",
            hasBody |-> FALSE, body |-> NoBody]
Raise(err) == [kind |-> err, value |-> "", path |-> "", verb |-> "",
               hasBody |-> FALSE, body |-> NoBody]
ReturnStr(s) == [kind |-> "return", value |-> s, path |-> "", verb |-> "",
                 hasBody |-> FALSE, body |-> NoBody]
\* the list [endpoint, type of request, body]; hasBody is FALSE for a None body
Descriptor(path, verb, hasBody, body) ==
  [kind |-> "return", value |-> "", path |-> path, verb |-> verb,
   hasBody |-> hasBody, body |-> body]

----------------------------------------------------------------------------
(* ExcelClient: the descriptor builders *)

\* a parameter's value, Python's default standing in for an omitted argument
Default(v, d) == IF v = Absent THEN PyStr(d) ELSE v

\* mutant: the check fails only when none of the values is a string
StringCheckFirstOnly(vals) ==
  \E v \in vals : v.type # "str" /\ \A w \in vals : w.type # "str"

\* for [k, v] in {...}.items(): if type(v) is not str: raise TypeError
StringCheckFails(vals) == \E v \in vals : v.type # "str"

\* "/me/drive/items/{0}/workbook/worksheets/{1}/range(address='{2}')"
RangePath(file_id, sheetname, range) ==
  "/me/drive/items/" \o file_id.str \o "/workbook/worksheets/"
    \o sheetname.str \o "/range(address='" \o range.str \o "')"

ListFields == {"data", "format", "formulas", "formulasLocal", "formulasR1C1"}

\* mutant: only the number of rows is compared
ListFieldCheckRowsOnly(v, size) ==
  IF v = PyNone THEN "ok"
  ELSE IF v.type # "list" THEN "TypeError"
  ELSE IF Len(size) = 0 \/ NpShape(v)[1] # size[1] THEN "ValueError"
  ELSE "ok"

\* one pass of the loop body of update_range over a list parameter
ListFieldCheck(v, size) ==
  IF v = PyNone THEN "ok"
  ELSE IF v.type # "list" THEN "TypeError"
  ELSE IF NpShape(v) # size THEN "ValueError"
  ELSE "ok"

\* The errors the loop over the five list parameters can end with.  The loop
\* walks a dict, whose order is arbitrary, and stops at the first parameter
\* that fails: any failing parameter may be that first one.
ListLoopErrors(a) ==
  {ListFieldCheck(a[k], NpShape(a.data)) : k \in ListFields} \ {"ok"}

\* for [k, v] in {"columnHidden": ..., "rowHidden": ...}.items()
BoolCheckFails(a) ==
  \E v \in {a.columnHidden, a.rowHidden} : v # PyNone /\ v.type # "bool"

\* mutant: the keys whose value is None are left in the body
UpdateBodyKeepsNone(a) ==
  {[k |-> "values", v |-> a.data],
   [k |-> "numberFormat", v |-> a.format],
   [k |-> "columnHidden", v |-> a.columnHidden],
   [k |-> "formulas", v |-> a.formulas],
   [k |-> "formulasLocal", v |-> a.formulasLocal],
   [k |-> "formulasR1C1", v |-> a.formulasR1C1],
   [k |-> "rowHidden", v |-> a.rowHidden]}

\* request_body after the loop that deletes every key whose value is None
\* (.items() is a list, so the deletions do not disturb the loop)
UpdateBody(a) ==
  {kv \in {[k |-> "values", v |-> a.data],
           [k |-> "numberFormat", v |-> a.format],
           [k |-> "columnHidden", v |-> a.columnHidden],
           [k |-> "formulas", v |-> a.formulas],
           [k |-> "formulasLocal", v |-> a.formulasLocal],
           [k |-> "formulasR1C1", v |-> a.formulasR1C1],
           [k |-> "rowHidden", v |-> a.rowHidden]} : kv.v # PyNone}

\* update_range: the set of outcomes the call can have
update_range(a) ==
  IF StringCheckFails({a.file_id, a.sheetname, a.range}) THEN {Raise("TypeError")}
  ELSE IF a.data = PyNone THEN {Raise("ValueError")}
  ELSE IF ListLoopErrors(a) # {} THEN {Raise(e) : e \in ListLoopErrors(a)}
  ELSE IF BoolCheckFails(a) THEN {Raise("TypeError")}
  ELSE {Descriptor(RangePath(a.file_id, a.sheetname, a.range), "patch",
                   TRUE, UpdateBody(a))}

get_range(a) ==
  IF StringCheckFails({a.file_id, a.sheetname, a.range}) THEN Raise("TypeError")
  ELSE Descriptor(RangePath(a.file_id, a.sheetname, a.range), "get",
                  FALSE, NoBody)

insert_empty_cells(a) ==
  LET shift == Default(a.mode, "Down") IN
  IF StringCheckFails({a.file_id, a.sheetname, a.range, shift})
  THEN Raise("TypeError")
  ELSE Descriptor(RangePath(a.file_id, a.sheetname, a.range) \o "/insert",
                  "post", TRUE, {[k |-> "shift", v |-> shift]})

clear_range(a) ==
  LET applyTo == Default(a.mode, "All") IN
  IF StringCheckFails({a.file_id, a.sheetname, a.range, applyTo})
  THEN Raise("TypeError")
  ELSE Descriptor(RangePath(a.file_id, a.sheetname, a.range) \o "/clear",
                  "post", TRUE, {[k |-> "applyTo", v |-> applyTo]})

\* mutant: the default of insert_empty_cells copied into delete_range
delete_range_shift_down(a) ==
  LET shift == Default(a.mode, "Down") IN
  IF StringCheckFails({a.file_id, a.sheetname, a.range, shift})
  THEN Raise("TypeError")
  ELSE Descriptor(RangePath(a.file_id, a.sheetname, a.range) \o "/delete",
                  "post", TRUE, {[k |-> "shift", v |-> shift]})

delete_range(a) ==
  LET shift == Default(a.mode, "Up") IN
  IF StringCheckFails({a.file_id, a.sheetname, a.range, shift})
  THEN Raise("TypeError")
  ELSE Descriptor(RangePath(a.file_id, a.sheetname, a.range) \o "/delete",
                  "post", TRUE, {[k |-> "shift", v |-> shift]})

get_rangeFormat(a) ==
  IF StringCheckFails({a.file_id, a.sheetname, a.range}) THEN Raise("TypeError")
  ELSE Descriptor(RangePath(a.file_id, a.sheetname, a.range) \o "/format",
                  "get", FALSE, NoBody)

----------------------------------------------------------------------------
(* ExcelClient.get_range_of_data *)

\* chr(c) for the codes the routine can reach, '@' (64) to 'Z' (90)
Chr(c) ==
  <<"@", "A", "B", "C", "D", "E", "F", "G", "H", "I", "J", "K", "L", "M",
    "N", "O", "P", "Q", "R", "S", "T", "U", "V", "W", "X", "Y", "Z">>[c - 63]

RECURSIVE Pow26(_)
Pow26(k) == IF k = 0 THEN 1 ELSE 26 * Pow26(k - 1)

\* while col >= degree: degree *= 26; digits_num += 1
RECURSIVE DigitsNum(_, _, _)
DigitsNum(col, degree, digits_num) ==
  IF col >= degree THEN DigitsNum(col, degree * 26, digits_num + 1)
  ELSE digits_num

\* for i in range(digits_num, 0, -1): n = col // 26**(i-1); xl_col += chr(64+n);
\* col -= n * 26**(i-1)
RECURSIVE XlCol(_, _)
XlCol(col, i) ==
  IF i = 0 THEN ""
  ELSE LET n == col \div Pow26(i - 1)
       IN  Chr(64 + n) \o XlCol(col - n * Pow26(i - 1), i - 1)

get_range_of_data(data) ==
  IF data = PyNone THEN Raise("ValueError")
  ELSE LET shape == NpShape(data) IN
       IF Len(shape) = 0 THEN Raise("IndexError")      \* np.shape(data)[0]
       ELSE IF Len(shape) = 1 THEN Raise("ValueError") \* except IndexError
       ELSE ReturnStr("A1:" \o XlCol(shape[2], DigitsNum(shape[2], 26, 1))
                            \o ToString(shape[1]))

----------------------------------------------------------------------------
(* Calls of the builders: the arguments a caller may pass *)

NoArgs == [op |-> "none", file_id |-> Absent, sheetname |-> Absent,
           range |-> Absent, mode |-> Absent, data |-> Absent,
           format |-> Absent, columnHidden |-> Absent, formulas |-> Absent,
           formulasLocal |-> Absent, formulasR1C1 |-> Absent,
           rowHidden |-> Absent]

FileIds == {PyStr("X"), PyInt}
SheetNames == {PyStr("Sheet1"), PyNone}
RangeArgs == {PyStr("A1:B3"), PyList(<<2>>)}
ShiftArgs == {Absent, PyStr("Right"), PyInt}
ApplyToArgs == {Absent, PyStr("Contents"), PyNone}

\* tables passed to update_range: 1x1, 1x2, and two ragged ones of two rows
UpdTables == {PyList(<<1>>), PyList(<<2>>), PyList(<<1, 2>>), PyList(<<2, 1>>)}
ListArgs == {PyNone, PyStr("0.00")} \cup UpdTables
BoolArgs == {PyNone, PyTrue, PyInt}

\* tables passed to get_range_of_data: every rectangle up to MaxRows x MaxCols,
\* every list of up to MaxRows rows of up to MaxRaggedCols cells (the empty
\* list, empty rows and the ragged tables among them)
RECURSIVE Rect(_, _)
Rect(r, c) == IF r = 0 THEN << >> ELSE <<c>> \o Rect(r - 1, c)

RangeTables ==
  {PyList(Rect(r, c)) : r \in 1..MaxRows, c \in 1..MaxCols}
    \cup {PyList(rows) :
            rows \in UNION {[1..n -> 0..MaxRaggedCols] : n \in 0..MaxRows}}

IdCall(op, f, s, r) ==
  [NoArgs EXCEPT !.op = op, !.file_id = f, !.sheetname = s, !.range = r]

ModeCall(op, f, s, r, m) == [IdCall(op, f, s, r) EXCEPT !.mode = m]

UpdateCall(f, s, r, d, fm, ch, f1, f2, f3, rh) ==
  [IdCall("update_range", f, s, r) EXCEPT
     !.data = d, !.format = fm, !.columnHidden = ch, !.formulas = f1,
     !.formulasLocal = f2, !.formulasR1C1 = f3, !.rowHidden = rh]

RangeOfDataCall(d) == [NoArgs EXCEPT !.op = "get_range_of_data", !.data = d]

\* the calls the builders are applied to
IsCall(c) ==
  \/ \E f \in FileIds, s \in SheetNames, r \in RangeArgs :
       \/ c = IdCall("get_range", f, s, r)
       \/ c = IdCall("get_rangeFormat", f, s, r)
       \/ \E m \in ShiftArgs : c = ModeCall("insert_empty_cells", f, s, r, m)
       \/ \E m \in ApplyToArgs : c = ModeCall("clear_range", f, s, r, m)
       \/ \E m \in ShiftArgs : c = ModeCall("delete_range", f, s, r, m)
       \/ \E d \in ListArgs, fm \in ListArgs, ch \in BoolArgs, f1 \in ListArgs,
            f2 \in ListArgs, f3 \in ListArgs, rh \in BoolArgs :
            /\ Cardinality({x \in {<<1, fm>>, <<2, ch>>, <<3, f1>>, <<4, f2>>,
                                   <<5, f3>>, <<6, rh>>} : x[2] # PyNone})
                 <= MaxOptional
            /\ c = UpdateCall(f, s, r, d, fm, ch, f1, f2, f3, rh)
  \/ \E d \in {PyNone, PyInt} \cup RangeTables : c = RangeOfDataCall(d)

----------------------------------------------------------------------------
(* The web application at rest (no request handled yet) *)

\* a response: its status line and, for a redirect or a page, its target
Reply(status, location) == [status |-> status, location |-> location]

NoRequest == [route |-> "", code |-> 0, state |-> 0]
NoSession == [state |-> 0, access_token |-> 0]

FlowIdle(cfg) ==
  /\ configs = cfg
  /\ session = NoSession
  /\ issued = 0
  /\ request = NoRequest
  /\ response = Reply("", "")
  /\ outbound = << >>
  /\ exchanges = 0
  /\ apiCalls = 0
  /\ matched = FALSE

----------------------------------------------------------------------------
(* Specification of the builders: one call, drawn from Calls, is applied *)

Init ==
  /\ IsCall(call)
  /\ result = Pending
  /\ FlowIdle(Pending)

Apply(op, r) ==
  /\ call.op = op
  /\ result = Pending
  /\ result' = r
  /\ UNCHANGED <<call, flowVars>>

UpdateRange == \E r \in update_range(call) : Apply("update_range", r)
GetRange == Apply("get_range", get_range(call))
InsertEmptyCells == Apply("insert_empty_cells", insert_empty_cells(call))
ClearRange == Apply("clear_range", clear_range(call))
DeleteRange == Apply("delete_range", delete_range(call))
GetRangeFormat == Apply("get_rangeFormat", get_rangeFormat(call))
GetRangeOfData == Apply("get_range_of_data", get_range_of_data(call.data))

Next ==
  \/ UpdateRange
  \/ GetRange
  \/ InsertEmptyCells
  \/ ClearRange
  \/ DeleteRange
  \/ GetRangeFormat
  \/ GetRangeOfData

Spec == Init /\ [][Next]_vars

----------------------------------------------------------------------------
(* __main__: the start-up lines and the four routes *)

RESOURCE == "https://graph.microsoft.com"
API_VERSION == "v1.0"
FILE_ID == "01BEQXWXBQ2QNOPSCY4NB2EEE3V2K53RA5"

Builders == {"update_range", "get_range", "insert_empty_cells", "clear_range",
             "delete_range", "get_rangeFormat"}

\* the tables get_data reads from out.csv
CsvTables == {PyList(Rect(r, c)) : r \in 1..MaxFlowDim, c \in 1..MaxFlowDim}

\* data = get_data(..); range = get_range_of_data(data);
\* configs = excelclient.<builder>(file_id=.., sheetname="Sheet1", range=range)
\* The source calls delete_range; that call is the line a user of the sample
\* replaces by the builder of the request to send, so every builder is
\* covered (update_range with the table as its data).
Startup(op, data) ==
  LET rng == get_range_of_data(data)
      a == [IdCall(op, PyStr(FILE_ID), PyStr("Sheet1"), PyStr(rng.value))
              EXCEPT !.data = data, !.format = PyNone,
                     !.columnHidden = PyNone, !.formulas = PyNone,
                     !.formulasLocal = PyNone, !.formulasR1C1 = PyNone,
                     !.rowHidden = PyNone]
  IN  IF rng.kind # "return" THEN {rng}
      ELSE IF op = "update_range" THEN update_range(a)
      ELSE IF op = "get_range" THEN {get_range(a)}
      ELSE IF op = "insert_empty_cells" THEN {insert_empty_cells(a)}
      ELSE IF op = "clear_range" THEN {clear_range(a)}
      ELSE IF op = "delete_range" THEN {delete_range(a)}
      ELSE {get_rangeFormat(a)}

\* an outbound call: to the token endpoint (kind "token", the authorization
\* code sent and the token replied, 0 for a failed exchange) or to the API
TokenCall(code, reply) ==
  [kind |-> "token", url |-> "", method |-> "post", bearer |-> 0,
   hasJson |-> FALSE, json |-> NoBody, code |-> code, reply |-> reply]
ApiCall(url, method, bearer, hasJson, json) ==
  [kind |-> "api", url |-> url, method |-> method, bearer |-> bearer,
   hasJson |-> hasJson, json |-> json, code |-> 0, reply |-> 0]

Handled(sess, resp, out) == [session |-> sess, response |-> resp, outbound |-> out]

\* str(uuid.uuid4()): a value no earlier login of the session was given
\* (the n-th value drawn is written n)
Uuid4(n) == n + 1

\* @app.route("/")
main(sess) == Handled(sess, Reply("307", "/login"), << >>)

\* mutant: a state already in the session is kept
login_keeps_state(sess, auth_state) ==
  Handled(IF sess.state = 0 THEN [sess EXCEPT !.state = auth_state] ELSE sess,
          Reply("307", "oauth2/authorize"), << >>)

\* @app.route("/login")
login(sess, auth_state) ==
  Handled([sess EXCEPT !.state = auth_state],
          Reply("307", "oauth2/authorize"), << >>)

\* mutant: the state argument is not compared with the stored state
main_logic_unchecked(sess, code, state, tok) ==
  IF code = 0 \/ state = 0 THEN Handled(sess, Reply("400", ""), << >>)
  ELSE IF sess.state = 0 THEN Handled(sess, Reply("500 KeyError", ""), << >>)
  ELSE IF tok = 0
       THEN Handled(sess, Reply("500 AdalError", ""), <<TokenCall(code, tok)>>)
  ELSE Handled([sess EXCEPT !.access_token = tok], Reply("302", "/graphcall"),
               <<TokenCall(code, tok)>>)

\* @app.route("/getAToken"); code and state are the query arguments, 0 for a
\* missing one; tok is what the token endpoint replies if it is asked
main_logic(sess, code, state, tok) ==
  IF code = 0 \/ state = 0 THEN Handled(sess, Reply("400", ""), << >>)
  ELSE IF sess.state = 0 THEN Handled(sess, Reply("500 KeyError", ""), << >>)
  ELSE IF state # sess.state
       THEN Handled(sess, Reply("500 ValueError: State does not match", ""), << >>)
  ELSE IF tok = 0
       THEN Handled(sess, Reply("500 AdalError", ""), <<TokenCall(code, tok)>>)
  ELSE Handled([sess EXCEPT !.access_token = tok], Reply("302", "/graphcall"),
               <<TokenCall(code, tok)>>)

\* mutant: the patch branch is missing
DispatchNoPatch(verb) ==
  IF verb = "get" THEN "requests.get"
  ELSE IF verb = "put" THEN "requests.put"
  ELSE IF verb = "post" THEN "requests.post"
  ELSE IF verb = "delete" THEN "requests.delete"
  ELSE "none"

\* the if/elif chain on TYPE_OF_REQUEST: the requests function called, "none"
\* when no branch is taken
Dispatch(verb) ==
  IF verb = "get" THEN "requests.get"
  ELSE IF verb = "put" THEN "requests.put"
  ELSE IF verb = "patch" THEN "requests.patch"
  ELSE IF verb = "post" THEN "requests.post"
  ELSE IF verb = "delete" THEN "requests.delete"
  ELSE "none"

\* mutant: the body is sent with every verb, the get branch included
graphcall_json_always(sess, cfg, jsonOk) ==
  IF sess.access_token = 0 THEN Handled(sess, Reply("302", "/login"), << >>)
  ELSE LET sent == ApiCall(RESOURCE \o "/" \o API_VERSION \o cfg.path,
                           cfg.verb, sess.access_token, TRUE, cfg.body)
       IN  IF jsonOk
           THEN Handled(sess, Reply("200", "display_graph_info.html"), <<sent>>)
           ELSE Handled(sess, Reply("500 ValueError", ""), <<sent>>)

\* @app.route("/graphcall"); jsonOk: the response body parses as JSON
graphcall(sess, cfg, jsonOk) ==
  IF sess.access_token = 0 THEN Handled(sess, Reply("302", "/login"), << >>)
  ELSE LET endpoint == RESOURCE \o "/" \o API_VERSION \o cfg.path
           branch == Dispatch(cfg.verb)
           sent == IF branch = "requests.get"
                   THEN ApiCall(endpoint, "get", sess.access_token, FALSE, NoBody)
                   ELSE ApiCall(endpoint, cfg.verb, sess.access_token,
                                cfg.hasBody, cfg.body)
       IN  IF branch = "none"
           THEN Handled(sess, Reply("500 UnboundLocalError", ""), << >>)
           ELSE IF jsonOk
           THEN Handled(sess, Reply("200", "display_graph_info.html"), <<sent>>)
           ELSE Handled(sess, Reply("500 ValueError", ""), <<sent>>)

----------------------------------------------------------------------------
(* Specification of the web flow: requests of one browser session, in any  *)
(* order and with any query arguments, handled one at a time               *)

Count(out, kind) == Cardinality({i \in 1..Len(out) : out[i].kind = kind})
Granted(out) ==
  Cardinality({i \in 1..Len(out) : out[i].kind = "token" /\ out[i].reply # 0})

InitFlow ==
  /\ call = NoArgs
  /\ result = Pending
  /\ \E op \in Builders, data \in CsvTables :
       \E cfg \in Startup(op, data) :
         /\ cfg.kind = "return"
         /\ FlowIdle(cfg)

Handle(route, code, state, h) ==
  /\ exchanges + Granted(h.outbound) <= MaxExchanges
  /\ apiCalls + Count(h.outbound, "api") <= MaxApiCalls
  /\ request' = [route |-> route, code |-> code, state |-> state]
  /\ session' = h.session
  /\ response' = h.response
  /\ outbound' = h.outbound
  /\ exchanges' = exchanges + Granted(h.outbound)
  /\ apiCalls' = apiCalls + Count(h.outbound, "api")
  /\ matched' = (matched \/ (route = "/getAToken" /\ state # 0
                             /\ state = session.state))
  /\ UNCHANGED <<call, result, configs>>

Main ==
  /\ Handle("/", 0, 0, main(session))
  /\ UNCHANGED issued

Login ==
  /\ issued < MaxLogins
  /\ issued' = issued + 1
  /\ Handle("/login", 0, 0, login(session, Uuid4(issued)))

GetAToken ==
  \E code \in 0..1, state \in 0..MaxLogins, tok \in 0..MaxTokens :
    /\ Handle("/getAToken", code, state, main_logic(session, code, state, tok))
    /\ UNCHANGED issued

Graphcall ==
  \E jsonOk \in BOOLEAN :
    /\ Handle("/graphcall", 0, 0, graphcall(session, configs, jsonOk))
    /\ UNCHANGED issued

NextFlow ==
  \/ Main
  \/ Login
  \/ GetAToken
  \/ Graphcall

SpecFlow == InitFlow /\ [][NextFlow]_vars

----------------------------------------------------------------------------
(* Claims about get_range_of_data *)

\* the bijective base-26 numeral of c: digits A = 1 .. Z = 26, no zero digit
RECURSIVE Letters(_)
Letters(c) ==
  IF c = 0 THEN ""
  ELSE Letters((c - 1) \div 26) \o Chr(65 + ((c - 1) % 26))

AllRowsEqual(rows) == \A i \in 1..Len(rows) : rows[i] = rows[1]
IsRectangular(v) ==
  v.type = "list" /\ Len(v.rows) >= 1 /\ AllRowsEqual(v.rows) /\ v.rows[1] >= 1
IsRagged(v) == v.type = "list" /\ Len(v.rows) >= 1 /\ ~AllRowsEqual(v.rows)

Applied(op) == call.op = op /\ result # Pending

\* C1: for every rectangular table of R >= 1 rows and C >= 1 columns,
\* get_range_of_data returns "A1:" + letters(C) + str(R), letters being the
\* bijective base-26 numeral (A = 1 .. Z = 26).
C1_RangeIsBijectiveBase26 ==
  (Applied("get_range_of_data") /\ IsRectangular(call.data))
    => result = ReturnStr("A1:" \o Letters(call.data.rows[1])
                                \o ToString(Len(call.data.rows)))

\* C6: for every ragged table (a non-empty list of rows whose lengths are not
\* all equal), get_range_of_data raises ValueError and returns no address.
C6_RaggedTableRaisesValueError ==
  (Applied("get_range_of_data") /\ IsRagged(call.data))
    => result = Raise("ValueError")

C6_Witness ==
  /\ Applied("get_range_of_data")
  /\ call.data = PyList(<<2, 1>>)
  /\ result.kind = "ValueError"

----------------------------------------------------------------------------
(* Claims about the descriptor builders *)

AllStrings(vals) == \A v \in vals : v.type = "str"

ExpectedPrefix(a) ==
  "/me/drive/items/" \o a.file_id.str \o "/workbook/worksheets/"
    \o a.sheetname.str \o "/range(address='" \o a.range.str \o "')"

ModeOr(a, d) == IF a.mode = Absent THEN PyStr(d) ELSE a.mode

\* C7: with all-string arguments, get_range returns [prefix, "get", None],
\* get_rangeFormat [prefix + "/format", "get", None], insert_empty_cells
\* [prefix + "/insert", "post", {"shift": s}] with s defaulting to "Down",
\* clear_range [prefix + "/clear", "post", {"applyTo": a}] with a defaulting
\* to "All", delete_range [prefix + "/delete", "post", {"shift": s}] with s
\* defaulting to "Up".
C7_NonUpdateDescriptors ==
  (result # Pending /\ AllStrings({call.file_id, call.sheetname, call.range})
     /\ (call.mode = Absent \/ call.mode.type = "str"))
    =>
    /\ call.op = "get_range" =>
         result = Descriptor(ExpectedPrefix(call), "get", FALSE, {})
    /\ call.op = "get_rangeFormat" =>
         result = Descriptor(ExpectedPrefix(call) \o "/format", "get", FALSE, {})
    /\ call.op = "insert_empty_cells" =>
         result = Descriptor(ExpectedPrefix(call) \o "/insert", "post", TRUE,
                             {[k |-> "shift", v |-> ModeOr(call, "Down")]})
    /\ call.op = "clear_range" =>
         result = Descriptor(ExpectedPrefix(call) \o "/clear", "post", TRUE,
                             {[k |-> "applyTo", v |-> ModeOr(call, "All")]})
    /\ call.op = "delete_range" =>
         result = Descriptor(ExpectedPrefix(call) \o "/delete", "post", TRUE,
                             {[k |-> "shift", v |-> ModeOr(call, "Up")]})

C7_Witness ==
  /\ Applied("delete_range")
  /\ call.mode = Absent
  /\ result.path = "/me/drive/items/X/workbook/worksheets/Sheet1/range(address='A1:B3')/delete"
  /\ result.body = {[k |-> "shift", v |-> PyStr("Up")]}

----------------------------------------------------------------------------
(* Claims about update_range *)

\* the body key each optional parameter is sent under
BodyKey(param) == IF param = "format" THEN "numberFormat" ELSE param

OptionalFields == {"format", "columnHidden", "formulas", "formulasLocal",
                   "formulasR1C1", "rowHidden"}

\* the optional parameters of update_range the caller passed a value for
Supplied(a) == {k \in OptionalFields : a[k] # PyNone}

OptionalLists == {"format", "formulas", "formulasLocal", "formulasR1C1"}
ValidIds == AllStrings({call.file_id, call.sheetname, call.range})

\* the shape numpy reports: (rows, columns) of a rectangular table, (rows,)
\* of a ragged or empty one, () of a value that is no list
ShapeOf(v) ==
  IF v.type # "list" THEN << >>
  ELSE IF Len(v.rows) >= 1 /\ AllRowsEqual(v.rows)
       THEN <<Len(v.rows), v.rows[1]>>
       ELSE <<Len(v.rows)>>

\* C2: for update_range with string identifiers and a non-null list data, the
\* returned descriptor has verb "patch" and a body holding "values" (bound to
\* data) and exactly the optional keys whose argument was supplied non-null;
\* no key has a null value; with no optional argument the body is {"values"}.
C2_UpdateBodyOmitsUnset ==
  (Applied("update_range") /\ ValidIds /\ call.data.type = "list"
     /\ result.kind = "return")
    =>
    /\ result.verb = "patch"
    /\ result.hasBody
    /\ {kv.k : kv \in result.body}
         = {"values"} \cup {BodyKey(p) : p \in Supplied(call)}
    /\ Cardinality(result.body) = 1 + Cardinality(Supplied(call))
    /\ \A kv \in result.body : kv.v # PyNone
    /\ [k |-> "values", v |-> call.data] \in result.body
    /\ Supplied(call) = {} => result.body = {[k |-> "values", v |-> call.data]}

C2_Witness ==
  /\ Applied("update_range")
  /\ result.kind = "return"
  /\ Supplied(call) = {"format", "rowHidden"}
  /\ {kv.k : kv \in result.body} = {"values", "numberFormat", "rowHidden"}

\* C5 as claimed (read with string identifiers and a list as data, the case
\* most favourable to it): with non-null data, a supplied list-typed optional field
\* (format, formulas, formulasLocal, formulasR1C1) whose rows and columns
\* differ from data's makes the call raise ValueError; if every supplied one
\* has data's shape, no ValueError is raised.
C5_AnyMismatchRaisesValueError ==
  (Applied("update_range") /\ ValidIds /\ call.data.type = "list")
    =>
    /\ (\E p \in OptionalLists :
          call[p].type = "list" /\ call[p].rows # call.data.rows)
         => result = Raise("ValueError")
    /\ (\A p \in OptionalLists :
          call[p].type = "list" => call[p].rows = call.data.rows)
         => result.kind # "ValueError"

\* C5 amended: with string identifiers and non-null data, a supplied list
\* field whose numpy shape differs from data's makes the call fail, without a
\* descriptor: with ValueError when data and all four fields, as far as
\* supplied, are lists, with ValueError or TypeError otherwise.  If every
\* supplied list field has data's numpy shape, no ValueError is raised.
C5_MismatchAmongListsRaisesValueError ==
  (Applied("update_range") /\ ValidIds /\ call.data # PyNone)
    =>
    LET mismatch == \E p \in OptionalLists :
                      call[p].type = "list" /\ ShapeOf(call[p]) # ShapeOf(call.data)
        allLists == /\ call.data.type = "list"
                    /\ \A p \in OptionalLists : call[p].type \in {"list", "NoneType"}
    IN  /\ mismatch => result.kind \in {"ValueError", "TypeError"}
        /\ (mismatch /\ allLists) => result = Raise("ValueError")
        /\ ~mismatch => result.kind # "ValueError"

C5_Witness ==
  /\ Applied("update_range")
  /\ ValidIds
  /\ call.data = PyList(<<1>>)
  /\ call.formulas = PyList(<<2>>)
  /\ call.format = PyList(<<1>>)
  /\ result = Raise("ValueError")

\* the string arguments an operation requires, as the caller passed them
RequiredStrings(a) ==
  {a.file_id, a.sheetname, a.range}
    \cup (IF a.mode = Absent THEN {} ELSE {a.mode})

BadBool(a) ==
  \E v \in {a.columnHidden, a.rowHidden} : v # PyNone /\ v.type # "bool"

\* C8 as claimed: in each of the six builders a required string argument that
\* is not a string makes the call raise TypeError; in update_range a non-null
\* columnHidden or rowHidden that is not a boolean likewise raises TypeError.
C8_BadTypesRaiseTypeError ==
  (result # Pending /\ call.op \in Builders)
    =>
    /\ ~AllStrings(RequiredStrings(call)) => result = Raise("TypeError")
    /\ (call.op = "update_range" /\ BadBool(call)) => result = Raise("TypeError")

\* C8 amended: a required string argument that is not a string makes each of
\* the six builders raise TypeError.  In update_range a non-null, non-boolean
\* columnHidden or rowHidden always makes the call fail without a descriptor;
\* the error is TypeError when data is non-null and every supplied list field
\* that is a list has data's numpy shape, and may be the ValueError of the
\* earlier data and shape checks otherwise.
C8_BadTypesFailTypeErrorAfterShapeChecks ==
  (result # Pending /\ call.op \in Builders)
    =>
    /\ ~AllStrings(RequiredStrings(call)) => result = Raise("TypeError")
    /\ (call.op = "update_range" /\ BadBool(call))
         => /\ result.kind \in {"TypeError", "ValueError"}
            /\ (/\ call.data # PyNone
                /\ \A p \in OptionalLists :
                     call[p].type = "list"
                       => ShapeOf(call[p]) = ShapeOf(call.data))
                 => result = Raise("TypeError")

C8_Witness ==
  /\ Applied("update_range")
  /\ ValidIds
  /\ call.data = PyList(<<1>>)
  /\ call.format = PyList(<<1>>)
  /\ call.columnHidden = PyInt
  /\ result = Raise("TypeError")

----------------------------------------------------------------------------
(* Claims about the web flow *)

StateMismatch == "500 ValueError: State does not match"

\* the step handled a request to this route
Served(route) == request'.route = route

\* C3: on /getAToken the code is exchanged and an access token written to the
\* session only if the state argument equals the state stored in the session;
\* when they differ the handler aborts with the state-mismatch error, asks
\* for no token and leaves the session's token as it was.  So a session that
\* holds a token has received a callback whose state matched the stored one.
C3_TokenOnlyAfterMatchingState ==
  /\ [](session.access_token # 0 => matched)
  /\ [][(outbound' # << >> /\ Served("/getAToken"))
          => (request'.state = session.state /\ session.state # 0)]_vars
  /\ [][session'.access_token # session.access_token
          => /\ Served("/getAToken")
             /\ request'.state = session.state
             /\ session.state # 0
             /\ outbound' = <<TokenCall(request'.code, session'.access_token)>>]_vars
  /\ [][(Served("/getAToken") /\ request'.code # 0 /\ request'.state # 0
           /\ session.state # 0 /\ request'.state # session.state)
          => /\ response'.status = StateMismatch
             /\ outbound' = << >>
             /\ session' = session]_vars

C3_Witness ==
  /\ session.access_token # 0
  /\ request.route = "/getAToken"
  /\ response.status = StateMismatch

\* C4 as claimed: in any sequence of requests of one session, each successful
\* token exchange is followed by exactly one outbound API call: there are
\* never more API calls than successful exchanges.
C4_OneApiCallPerExchange == apiCalls <= exchanges

\* what /graphcall sends for the descriptor in configs
ExpectedApiCall ==
  ApiCall(RESOURCE \o "/" \o API_VERSION \o configs.path, configs.verb,
          session.access_token, configs.hasBody, configs.body)

\* C4 amended: every /graphcall request handled while the session holds an
\* access token issues exactly one outbound API call, to the descriptor's
\* path with its verb and body and the session's token as bearer, and no
\* other request issues an API call; the calls after one exchange are as many
\* as the /graphcall requests, not one.
C4_OneApiCallPerGraphcallRequest ==
  [][/\ Count(outbound', "api") <= 1
     /\ (Served("/graphcall") /\ session.access_token # 0)
          => outbound' = <<ExpectedApiCall>>
     /\ Count(outbound', "api") = 1
          => (Served("/graphcall") /\ session.access_token # 0
              /\ outbound' = <<ExpectedApiCall>>)]_vars

C4_Witness ==
  /\ exchanges = 1
  /\ apiCalls = 2
  /\ request.route = "/graphcall"
  /\ Count(outbound, "api") = 1

\* C9: a /graphcall request in a session without access token makes no
\* outbound call and redirects to /login; an API call is made only when the
\* session holds a token; for the verbs the builders produce (get, post,
\* patch) the dispatch takes the branch of that verb.
C9_NoTokenNoApiCall ==
  /\ [](/\ configs.verb \in {"get", "post", "patch"}
        /\ Dispatch(configs.verb) = "requests." \o configs.verb)
  /\ [][(Served("/graphcall") /\ session.access_token = 0)
          => (outbound' = << >> /\ response' = Reply("302", "/login")
              /\ apiCalls' = apiCalls)]_vars
  /\ [][apiCalls' # apiCalls => session.access_token # 0]_vars

C9_Witness ==
  /\ request.route = "/graphcall"
  /\ session.access_token = 0
  /\ session.state # 0
  /\ response = Reply("302", "/login")

\* C10: every /login replaces the session's state by a fresh value, so a
\* /getAToken callback is accepted only with the state of the most recent
\* /login; one carrying the state of an earlier /login is rejected with the
\* state-mismatch error.
C10_OnlyLatestStateAccepted ==
  /\ [][Served("/login")
          => /\ session'.state # 0
             /\ session'.state # session.state
             /\ session'.state = issued'
             /\ issued' = issued + 1]_vars
  /\ [](session.state = issued)
  /\ [][(Served("/getAToken") /\ outbound' # << >>)
          => (issued > 0 /\ request'.state = issued)]_vars
  /\ [][(Served("/getAToken") /\ request'.code # 0
           /\ request'.state \in 1..(issued - 1))
          => /\ response'.status = StateMismatch
             /\ outbound' = << >>
             /\ session' = session]_vars

C10_Witness ==
  /\ request.route = "/getAToken"
  /\ request.state \in 1..(issued - 1)
  /\ response.status = StateMismatch

====
